---- MODULE Spec2Model ----
(***************************************************************************)
(* Model of src/lambda/lambda_function.py: a Lambda handler that queries   *)
(* CloudWatch Logs Insights for every configured log group, aggregates the *)
(* matches, formats a text report and mails it through SES (raw message    *)
(* with attachment, falling back to a plain message).                      *)
(*                                                                         *)
(* Python values are represented as follows:                               *)
(*   str            a TLA+ string (Len, \o and SubSeq act on characters)   *)
(*   list           a sequence                                             *)
(*   dict           a sequence of [key, value] records in insertion order  *)
(*   a variable     <<>> while it is unassigned, <<v>> once it holds v     *)
(*   an optional    <<>> for None, <<v>> for the string v                  *)
(*   a log record   a sequence of [field, value] records                   *)
(***************************************************************************)
EXTENDS Integers, Sequences, FiniteSets, TLC

\* ------------------------------------------------------------------------
\* Bounds of the model
\* ------------------------------------------------------------------------
\* number of comma-separated pieces in the LOG_GROUPS environment value
MaxPieces == 2
\* number of records one poll response carries
MaxRecords == 3
\* number of log groups of a mapping handed to format_error_report alone
MaxFormatGroups == 2
\* number of records of a mapping handed to generate_error_summary alone
MaxSummaryRecords == 3

\* ------------------------------------------------------------------------
\* Configuration (the defaults of the environment lookups)
\* ------------------------------------------------------------------------
PROJECT_NAME == "Generic"
ENVIRONMENT == "UAT"
SERVICE_NAME == "Error Monitor"
INTERVAL_MINUTES == 60
\* PROJECT_NAME.upper() and SERVICE_NAME.upper()
PROJECT_NAME_upper == "GENERIC"
SERVICE_NAME_upper == "ERROR MONITOR"

\* locals of query_logs
max_wait == 60
interval == 2

\* the slice bound of the fallback preview and the per-group cap of the report
PREVIEW_CHARS == 2000
DETAIL_CAP == 50

None == <<>>
Some(v) == <<v>>

Min(a, b) == IF a < b THEN a ELSE b

Range(seq) == { seq[i] : i \in 1..Len(seq) }

\* the element of a set of one element
Only(S) == CHOOSE e \in S : TRUE

\* ------------------------------------------------------------------------
\* Strings
\* ------------------------------------------------------------------------
CharAt(s, i) == SubSeq(s, i, i)

\* s.split(',')
RECURSIVE SplitFrom(_, _, _)
SplitFrom(s, start, i) ==
    IF i > Len(s) THEN << SubSeq(s, start, Len(s)) >>
    ELSE IF CharAt(s, i) = ","
         THEN << SubSeq(s, start, i - 1) >> \o SplitFrom(s, i + 1, i + 1)
         ELSE SplitFrom(s, start, i + 1)

Split(s) == SplitFrom(s, 1, 1)

\* s.strip(), for the whitespace the model's inputs contain
RECURSIVE LStrip(_)
LStrip(s) == IF Len(s) > 0 /\ CharAt(s, 1) = " "
             THEN LStrip(SubSeq(s, 2, Len(s))) ELSE s

RECURSIVE RStrip(_)
RStrip(s) == IF Len(s) > 0 /\ CharAt(s, Len(s)) = " "
             THEN RStrip(SubSeq(s, 1, Len(s) - 1)) ELSE s

Strip(s) == RStrip(LStrip(s))

\* s[:n]
Slice(s, n) == SubSeq(s, 1, Min(Len(s), n))

\* ','.join(pieces)
RECURSIVE JoinComma(_)
JoinComma(pieces) ==
    IF pieces = <<>> THEN ""
    ELSE IF Len(pieces) = 1 THEN pieces[1]
    ELSE pieces[1] \o "," \o JoinComma(Tail(pieces))

\* ''.join(lines)
RECURSIVE Join(_)
Join(lines) ==
    IF lines = <<>> THEN ""
    ELSE IF Len(lines) = 1 THEN lines[1]
    ELSE LET half == Len(lines) \div 2
         IN  Join(SubSeq(lines, 1, half)) \o Join(SubSeq(lines, half + 1, Len(lines)))

\* LOG_GROUPS = [lg.strip() for lg in LOG_GROUPS_RAW.split(',') if lg.strip()]
RECURSIVE StripNonEmpty(_)
StripNonEmpty(pieces) ==
    IF pieces = <<>> THEN <<>>
    ELSE IF Strip(pieces[1]) # ""
         THEN << Strip(pieces[1]) >> \o StripNonEmpty(Tail(pieces))
         ELSE StripNonEmpty(Tail(pieces))

ParseLogGroups(raw) == StripNonEmpty(Split(raw))

\* ------------------------------------------------------------------------
\* dict, as a sequence of [key, value] in insertion order
\* ------------------------------------------------------------------------
Keys(d) == { d[i].key : i \in 1..Len(d) }

\* d[k] = v : an existing key keeps its position and takes the new value
Put(d, k, v) ==
    IF k \in Keys(d)
    THEN [i \in 1..Len(d) |-> IF d[i].key = k THEN [key |-> k, value |-> v] ELSE d[i]]
    ELSE Append(d, [key |-> k, value |-> v])

\* ------------------------------------------------------------------------
\* Log records
\* ------------------------------------------------------------------------
\* next((f['value'] for f in result if f['field'] == name), default)
RECURSIVE FieldValue(_, _, _)
FieldValue(result, name, default) ==
    IF result = <<>> THEN default
    ELSE IF result[1].field = name THEN Some(result[1].value)
    ELSE FieldValue(Tail(result), name, default)

\* truth value of an optional string: None and '' are false
Truthy(opt) == opt # None /\ opt[1] # ""

\* str(x) of an optional string inside an f-string
Text(opt) == IF opt = None THEN "None" ELSE opt[1]

\* ------------------------------------------------------------------------
\* generate_error_summary
\* ------------------------------------------------------------------------
RECURSIVE TrackTimes(_, _)
RECURSIVE TrackTimes_overwrite_first(_, _)

\* variant: first_error_time is assigned at every record with a timestamp
TrackTimes_overwrite_first(acc, results) ==
    IF results = <<>> THEN acc
    ELSE LET timestamp == FieldValue(results[1], "@timestamp", None)
             seen == IF Truthy(timestamp)
                     THEN [first |-> timestamp, last |-> timestamp]
                     ELSE acc
         IN  TrackTimes_overwrite_first(seen, Tail(results))

\* the inner loop over one group's records, acc = [first, last]
TrackTimes(acc, results) ==
    IF results = <<>> THEN acc
    ELSE IF Len(results) = 1
    THEN LET timestamp == FieldValue(results[1], "@timestamp", None)
         IN  IF Truthy(timestamp)
             THEN [first |-> IF ~Truthy(acc.first) THEN timestamp ELSE acc.first,
                   last  |-> timestamp]
             ELSE acc
    ELSE \* seen is the accumulator after the first half of the records
         LET half == Len(results) \div 2
         IN  Only({ TrackTimes(seen, SubSeq(results, half + 1, Len(results))) :
                      seen \in { TrackTimes(acc, SubSeq(results, 1, half)) } })

\* the outer loop over all_results.items(), acc = [breakdown, first, last]
RECURSIVE SummaryLoop(_, _)
SummaryLoop(acc, items) ==
    IF items = <<>> THEN acc
    ELSE LET log_group == items[1].key
             results == items[1].value
             times == TrackTimes([first |-> acc.first, last |-> acc.last], results)
         IN  SummaryLoop([breakdown |-> Put(acc.breakdown, log_group, Len(results)),
                          first |-> times.first,
                          last |-> times.last],
                         Tail(items))

generate_error_summary(all_results_, total_errors_) ==
    LET acc == SummaryLoop([breakdown |-> <<>>, first |-> None, last |-> None], all_results_)
    IN  [total_errors |-> total_errors_,
         affected_log_groups |-> Len(all_results_),
         log_group_breakdown |-> acc.breakdown,
         first_error_time |-> acc.first,
         last_error_time |-> acc.last]

\* ------------------------------------------------------------------------
\* format_error_report
\* ------------------------------------------------------------------------
\* "=" * 80, "-" * 80 and '#' * 80
Rule(c) ==
    IF c = "=" THEN "================================================================================"
    ELSE IF c = "-" THEN "--------------------------------------------------------------------------------"
    ELSE "################################################################################"

\* format spec '>w' : right-align in a field of width w
RECURSIVE PadLeft(_, _)
PadLeft(s, w) == IF Len(s) >= w THEN s ELSE PadLeft(" " \o s, w)

\* format spec '.1f' of (count / total) * 100, total > 0: the quotient in
\* tenths, rounded to nearest, an exact tie to the even tenth
Fixed1(count, total) ==
    LET q == (count * 1000) \div total
        r == (count * 1000) % total
        tenths == IF 2 * r > total THEN q + 1
                  ELSE IF 2 * r = total THEN q + (q % 2)
                  ELSE q
    IN  ToString(tenths \div 10) \o "." \o ToString(tenths % 10)

\* sorted(items, key=lambda x: x[1], reverse=True): stable, descending by value
RECURSIVE InsertDesc(_, _)
InsertDesc(sorted, item) ==
    IF sorted = <<>> THEN << item >>
    ELSE IF sorted[1].value >= item.value
         THEN << sorted[1] >> \o InsertDesc(Tail(sorted), item)
         ELSE << item >> \o sorted

RECURSIVE SortedDesc(_)
SortedDesc(items) ==
    IF items = <<>> THEN <<>>
    ELSE InsertDesc(SortedDesc(SubSeq(items, 1, Len(items) - 1)), items[Len(items)])

\* start_time.strftime('%Y-%m-%d %H:%M:%S') and the same of end_time, for one
\* window of INTERVAL_MINUTES; the text has the same width for every window
start_time_text == "2026-11-01 04:30:00"
end_time_text == "2026-11-01 05:30:00"

\* the breakdown loop
RECURSIVE BreakdownLines(_, _)
BreakdownLines(items, total) ==
    IF items = <<>> THEN <<>>
    ELSE << "  " \o items[1].key \o "\n",
            "    " \o PadLeft(ToString(items[1].value), 4) \o " errors ("
                   \o PadLeft(Fixed1(items[1].value, total), 5) \o "%)\n\n" >>
         \o BreakdownLines(Tail(items), total)

\* the loop over enumerate(results[:50], 1), from entry number i
RECURSIVE EntryLines(_, _)
EntryLines(results, i) ==
    IF results = <<>> THEN <<>>
    ELSE IF Len(results) = 1
    THEN LET timestamp == FieldValue(results[1], "@timestamp", Some("N/A"))
             message == FieldValue(results[1], "@message", Some("N/A"))
             stream == FieldValue(results[1], "@logStream", Some("N/A"))
         IN  << "ERROR #" \o ToString(i) \o "\n",
                "Timestamp:   " \o Text(timestamp) \o "\n",
                "Log Stream:  " \o Text(stream) \o "\n",
                "Message:     " \o Text(message) \o "\n",
                Rule("-") \o "\n\n" >>
    ELSE LET half == Len(results) \div 2
         IN  EntryLines(SubSeq(results, 1, half), i)
             \o EntryLines(SubSeq(results, half + 1, Len(results)), i + half)

\* variant: the truncation notice is written from 50 records on
GroupLines_notice_at_cap(log_group, results) ==
    << "\n" \o Rule("#") \o "\n",
       "LOG GROUP: " \o log_group \o "\n",
       "Error Count: " \o ToString(Len(results)) \o "\n",
       Rule("#") \o "\n\n" >>
    \o EntryLines(SubSeq(results, 1, Min(Len(results), DETAIL_CAP)), 1)
    \o (IF Len(results) >= DETAIL_CAP
        THEN << "... and " \o ToString(Len(results) - DETAIL_CAP)
                \o " more errors (truncated for readability)\n\n" >>
        ELSE <<>>)

\* the lines of one log group of the detail section
GroupLines(log_group, results) ==
    << "\n" \o Rule("#") \o "\n",
       "LOG GROUP: " \o log_group \o "\n",
       "Error Count: " \o ToString(Len(results)) \o "\n",
       Rule("#") \o "\n\n" >>
    \o EntryLines(SubSeq(results, 1, Min(Len(results), DETAIL_CAP)), 1)
    \o (IF Len(results) > DETAIL_CAP
        THEN << "... and " \o ToString(Len(results) - DETAIL_CAP)
                \o " more errors (truncated for readability)\n\n" >>
        ELSE <<>>)

RECURSIVE DetailLines(_)
DetailLines(items) ==
    IF items = <<>> THEN <<>>
    ELSE GroupLines(items[1].key, items[1].value) \o DetailLines(Tail(items))

\* the list `lines` at the return of format_error_report
ReportLines(all_results_, summary) ==
    << Rule("=") \o "\n",
       PROJECT_NAME_upper \o " - " \o SERVICE_NAME_upper \o " ERROR REPORT [" \o ENVIRONMENT \o "]\n",
       Rule("=") \o "\n\n",
       "MONITORING PERIOD\n",
       Rule("-") \o "\n",
       "Start Time:  " \o start_time_text \o " UTC\n",
       "End Time:    " \o end_time_text \o " UTC\n",
       "Duration:    " \o ToString(INTERVAL_MINUTES) \o " minutes\n\n",
       "ERROR SUMMARY\n",
       Rule("-") \o "\n",
       "Total Errors Found:     " \o ToString(summary.total_errors) \o "\n",
       "Project:                " \o PROJECT_NAME \o "\n",
       "Environment:            " \o ENVIRONMENT \o "\n",
       "Service:                " \o SERVICE_NAME \o "\n",
       "Affected Log Groups:    " \o ToString(summary.affected_log_groups) \o "\n",
       "First Error Occurred:   " \o Text(summary.first_error_time) \o "\n",
       "Last Error Occurred:    " \o Text(summary.last_error_time) \o "\n\n" >>
    \o (IF summary.log_group_breakdown # <<>>
        THEN << "ERROR BREAKDOWN BY LOG GROUP\n", Rule("-") \o "\n" >>
             \o BreakdownLines(SortedDesc(summary.log_group_breakdown), summary.total_errors)
        ELSE <<>>)
    \o << Rule("=") \o "\n\n",
          "DETAILED ERROR LOGS\n",
          Rule("=") \o "\n\n" >>
    \o DetailLines(all_results_)
    \o << Rule("=") \o "\n",
          "Full details available in CloudWatch Logs Insights\n",
          Rule("=") \o "\n",
          "END OF REPORT\n",
          Rule("=") \o "\n" >>

format_error_report(all_results_, summary) == Join(ReportLines(all_results_, summary))

\* ------------------------------------------------------------------------
\* Inputs: the environment value, and what the services answer
\* ------------------------------------------------------------------------
\* pieces of LOG_GROUPS_RAW between commas: a name, a name with blanks
\* around it, and an empty piece
RawPieces == { "/aws/lambda/app", " /ecs/api ", "" }

RawConfigs == { JoinComma(p) : p \in UNION { [1..n -> RawPieces] : n \in 0..MaxPieces } }

\* two log records as get_query_results returns them
RecordFull ==
    << [field |-> "@timestamp", value |-> "2026-11-01 05:12:44.310"],
       [field |-> "@message", value |-> "[ERROR] Task failed: connection reset by peer"],
       [field |-> "@logStream", value |-> "2026/11/01/[$LATEST]5f3a" ] >>

RecordBare ==
    << [field |-> "@message", value |-> "Traceback (most recent call last):"] >>

RecordPool == { RecordFull, RecordBare }

\* the result lists of up to MaxRecords records that start with either
\* record and alternate between the two
ResultSeqs ==
    { [i \in 1..n |-> IF i % 2 = 1 THEN first ELSE CHOOSE r \in RecordPool : r # first] :
        n \in 0..MaxRecords, first \in RecordPool }

TerminalFailure == { "Failed", "Cancelled" }
Statuses == { "Running", "Complete" } \cup TerminalFailure

\* the response of one get_query_results call, or the exception it raises;
\* a response that is not Complete carries no records or partial ones
NoResponse == [raised |-> FALSE, status |-> "", results |-> <<>>]

PollOutcomes ==
    { [raised |-> TRUE, status |-> "", results |-> <<>>] }
    \cup { [raised |-> FALSE, status |-> "Complete", results |-> r] : r \in ResultSeqs }
    \cup { [raised |-> FALSE, status |-> st, results |-> r] :
             st \in Statuses \ { "Complete" }, r \in { <<>>, << RecordFull >> } }

\* ------------------------------------------------------------------------
\* query_logs, step by step.  A step is [op, value, log, elapsed]: op says
\* whether the function goes on polling, returns value, or lets an exception
\* out; log is the error line it writes
\* ------------------------------------------------------------------------
\* start_query answered: the locals before the first test of the loop
query_logs_started ==
    [op |-> "continue", value |-> <<>>, log |-> "", elapsed |-> 0]

\* variant: a Failed or Cancelled status raises instead of returning
query_logs_poll_raising(result_, elapsed_) ==
    IF result_.status = "Complete"
    THEN [op |-> "return", value |-> result_.results, log |-> "", elapsed |-> elapsed_]
    ELSE IF result_.status \in { "Failed", "Cancelled" }
    THEN [op |-> "raise", value |-> <<>>, log |-> "", elapsed |-> elapsed_]
    ELSE [op |-> "continue", value |-> <<>>, log |-> "", elapsed |-> elapsed_ + interval]

\* variant: a Failed or Cancelled response returns the records it carries
query_logs_poll_partial(result_, elapsed_) ==
    IF result_.status \in { "Complete", "Failed", "Cancelled" }
    THEN [op |-> "return", value |-> result_.results, log |-> "", elapsed |-> elapsed_]
    ELSE [op |-> "continue", value |-> <<>>, log |-> "", elapsed |-> elapsed_ + interval]

\* one pass of the loop body on the response `result`
query_logs_poll(result_, elapsed_) ==
    IF result_.status = "Complete"
    THEN [op |-> "return", value |-> result_.results, log |-> "", elapsed |-> elapsed_]
    ELSE IF result_.status \in { "Failed", "Cancelled" }
    THEN [op |-> "return", value |-> <<>>,
          log |-> "[ERROR] Query " \o (IF result_.status = "Failed" THEN "failed" ELSE "cancelled"),
          elapsed |-> elapsed_]
    ELSE [op |-> "continue", value |-> <<>>, log |-> "", elapsed |-> elapsed_ + interval]

\* variant: the loop test is elapsed <= max_wait
query_logs_while_inclusive(step) ==
    IF step.op = "continue" /\ ~(step.elapsed <= max_wait)
    THEN [op |-> "return", value |-> <<>>,
          log |-> "[ERROR] Query timeout after " \o ToString(max_wait) \o "s",
          elapsed |-> step.elapsed]
    ELSE step

\* the loop test, and the timeout return once it is false
query_logs_while(step) ==
    IF step.op = "continue" /\ ~(step.elapsed < max_wait)
    THEN [op |-> "return", value |-> <<>>, log |-> "[ERROR] Query timeout after " \o ToString(max_wait) \o "s",
          elapsed |-> step.elapsed]
    ELSE step

\* variant: no except clause, the exception goes on to the caller
query_logs_except_reraise(elapsed_) ==
    [op |-> "raise", value |-> <<>>, log |-> "", elapsed |-> elapsed_]

\* the except clause
query_logs_except(elapsed_) ==
    [op |-> "return", value |-> <<>>, log |-> "[ERROR] Query error", elapsed |-> elapsed_]

\* ------------------------------------------------------------------------
\* lambda_handler
\* ------------------------------------------------------------------------
\* variant: total_errors = len(results) in place of +=
handle_results_last_count(all_results_, total_errors_, log_group, results) ==
    IF results # <<>>
    THEN [all_results |-> Put(all_results_, log_group, results),
          total_errors |-> Len(results)]
    ELSE [all_results |-> all_results_, total_errors |-> total_errors_]

\* variant: no test `if results`
handle_results_keep_empty(all_results_, total_errors_, log_group, results) ==
    [all_results |-> Put(all_results_, log_group, results),
     total_errors |-> total_errors_ + Len(results)]

\* the body of the loop after query_logs returned `results`
handle_results(all_results_, total_errors_, log_group, results) ==
    IF results # <<>>
    THEN [all_results |-> Put(all_results_, log_group, results),
          total_errors |-> total_errors_ + Len(results)]
    ELSE [all_results |-> all_results_, total_errors |-> total_errors_]

\* variant: the report is made whatever all_results holds
errors_detected_always(all_results_) == TRUE

\* the test `if not all_results`, negated
errors_detected(all_results_) == all_results_ # <<>>

no_errors_result ==
    [statusCode |-> 200,
     body |-> "No errors found in " \o PROJECT_NAME \o " " \o SERVICE_NAME]

reported_result(total_errors_) ==
    [statusCode |-> 200,
     body |-> "Found and reported " \o ToString(total_errors_) \o " errors in "
              \o PROJECT_NAME \o " " \o SERVICE_NAME]

\* ------------------------------------------------------------------------
\* send_email_with_attachment and send_simple_email.  A step is
\* [op, content, log]: op says whether the function returns, calls the
\* fallback with content, or lets an exception out
\* ------------------------------------------------------------------------
send_email_with_attachment_sent ==
    [op |-> "return", content |-> "", log |-> ""]

\* variant: the fallback gets the whole report
send_email_with_attachment_except_whole(log_content_) ==
    [op |-> "fallback", content |-> log_content_,
     log |-> "[ERROR] Email sending failed"]

\* the except clause of send_email_with_attachment
send_email_with_attachment_except(log_content_) ==
    [op |-> "fallback", content |-> Slice(log_content_, PREVIEW_CHARS),
     log |-> "[ERROR] Email sending failed"]

send_simple_email_sent ==
    [op |-> "return", content |-> "", log |-> ""]

\* variant: no except clause, the exception goes on to the caller
send_simple_email_reraise ==
    [op |-> "raise", content |-> "", log |-> ""]

\* the except clause of send_simple_email
send_simple_email_except ==
    [op |-> "return", content |-> "", log |-> "[ERROR] Fallback email failed"]

\* ------------------------------------------------------------------------
\* State
\* ------------------------------------------------------------------------
VARIABLES
    LOG_GROUPS,       \* the parsed log-group list
    pc,               \* where the invocation is
    idx,              \* index in LOG_GROUPS of the loop's current entry
    elapsed,          \* query_logs: local elapsed
    polls,            \* query_logs: get_query_results calls of the current query
    poll_response,    \* query_logs: the last get_query_results outcome
    query_result,     \* what query_logs returned, None until it returns
    query_log,        \* the error line query_logs wrote, "" if none
    all_results,      \* lambda_handler: dict log group -> records
    total_errors,     \* lambda_handler: local total_errors
    error_summary,    \* lambda_handler: local error_summary, None until assigned
    log_content,      \* lambda_handler: local log_content, None until assigned
    report_lines,     \* format_error_report: local lines at its return, None before
    fallback_content, \* send_simple_email: parameter log_content, None until called
    primary_outcome,  \* "" until send_raw_email answered, then "sent" or "raised"
    fallback_outcome, \* "" until send_email answered, then "sent" or "raised"
    result,           \* what lambda_handler returned, None until it returns
    escaped,          \* an exception left lambda_handler
    error_log,        \* the logger.error lines of the invocation, in order
    submitted,        \* log groups of the start_query calls, in order
    yielded,          \* log groups for which query_logs returned a record
    yield_total,      \* number of records query_logs returned, all calls together
    calls             \* calls after the loop, in order

vars == << LOG_GROUPS, pc, idx, elapsed, polls, poll_response, query_result,
           query_log, all_results, total_errors, error_summary, log_content,
           report_lines,
           fallback_content, primary_outcome, fallback_outcome, result, escaped,
           error_log, submitted, yielded, yield_total, calls >>

query_vars == << elapsed, polls, poll_response, query_result, query_log >>
handler_vars == << all_results, total_errors, error_summary, log_content,
                  report_lines, result >>
mail_vars == << fallback_content, primary_outcome, fallback_outcome >>
history_vars == << submitted, yielded, yield_total >>

Init ==
    /\ \E raw \in RawConfigs : LOG_GROUPS = ParseLogGroups(raw)
    /\ pc = "query"
    /\ idx = 1
    /\ elapsed = 0
    /\ polls = 0
    /\ poll_response = NoResponse
    /\ query_result = None
    /\ query_log = ""
    /\ all_results = <<>>
    /\ total_errors = 0
    /\ error_summary = None
    /\ log_content = None
    /\ report_lines = None
    /\ fallback_content = None
    /\ primary_outcome = ""
    /\ fallback_outcome = ""
    /\ result = None
    /\ escaped = FALSE
    /\ error_log = <<>>
    /\ submitted = <<>>
    /\ yielded = {}
    /\ yield_total = 0
    /\ calls = <<>>

\* an exception that nothing catches leaves lambda_handler, which has no
\* try statement of its own
Escape ==
    /\ pc' = "done"
    /\ escaped' = TRUE

\* the effect of one step of query_logs on the invocation
QueryStep(step) ==
    /\ elapsed' = step.elapsed
    /\ query_log' = step.log
    /\ error_log' = IF step.log = "" THEN error_log ELSE Append(error_log, step.log)
    /\ IF step.op = "raise"
       THEN Escape /\ query_result' = None
       ELSE /\ escaped' = escaped
            /\ pc' = IF step.op = "continue" THEN "poll" ELSE "returned"
            /\ query_result' = IF step.op = "continue" THEN None ELSE Some(step.value)

\* for log_group in LOG_GROUPS: query_logs(...) up to the answer of start_query
StartQuery ==
    /\ pc = "query"
    /\ idx <= Len(LOG_GROUPS)
    /\ submitted' = Append(submitted, LOG_GROUPS[idx])
    /\ polls' = 0
    /\ poll_response' = NoResponse
    /\ \E raised \in BOOLEAN :
          QueryStep(IF raised THEN query_logs_except(0)
                    ELSE query_logs_while(query_logs_started))
    /\ UNCHANGED << LOG_GROUPS, idx, handler_vars, mail_vars, yielded, yield_total, calls >>

\* one get_query_results call and the rest of that pass of the loop
Poll ==
    /\ pc = "poll"
    /\ \E r \in PollOutcomes :
          /\ poll_response' = r
          /\ QueryStep(IF r.raised THEN query_logs_except(elapsed)
                       ELSE query_logs_while(query_logs_poll(r, elapsed)))
    /\ polls' = polls + 1
    /\ UNCHANGED << LOG_GROUPS, idx, handler_vars, mail_vars, history_vars, calls >>

\* query_logs has returned: the rest of the loop body
ProcessResults ==
    /\ pc = "returned"
    /\ LET h == handle_results(all_results, total_errors, LOG_GROUPS[idx], query_result[1])
       IN  /\ all_results' = h.all_results
           /\ total_errors' = h.total_errors
    /\ yielded' = IF query_result[1] # <<>> THEN yielded \cup { LOG_GROUPS[idx] } ELSE yielded
    /\ yield_total' = yield_total + Len(query_result[1])
    /\ idx' = idx + 1
    /\ pc' = "query"
    /\ elapsed' = 0
    /\ polls' = 0
    /\ poll_response' = NoResponse
    /\ query_result' = None
    /\ query_log' = ""
    /\ UNCHANGED << LOG_GROUPS, error_summary, log_content, report_lines, result, mail_vars,
                    escaped, error_log, submitted, calls >>

\* the loop is over and all_results is empty: return
NoErrors ==
    /\ pc = "query"
    /\ idx > Len(LOG_GROUPS)
    /\ ~errors_detected(all_results)
    /\ result' = Some(no_errors_result)
    /\ pc' = "done"
    /\ UNCHANGED << LOG_GROUPS, idx, query_vars, all_results, total_errors,
                    error_summary, log_content, report_lines, mail_vars, escaped, error_log,
                    history_vars, calls >>

\* the loop is over and all_results is not empty: generate_error_summary
GenerateSummary ==
    /\ pc = "query"
    /\ idx > Len(LOG_GROUPS)
    /\ errors_detected(all_results)
    /\ error_summary' = Some(generate_error_summary(all_results, total_errors))
    /\ calls' = Append(calls, "generate_error_summary")
    /\ pc' = "format"
    /\ UNCHANGED << LOG_GROUPS, idx, query_vars, all_results, total_errors,
                    log_content, report_lines, result, mail_vars, escaped, error_log,
                    history_vars >>

FormatReport ==
    /\ pc = "format"
    /\ report_lines' = Some(ReportLines(all_results, error_summary[1]))
    /\ log_content' = Some(format_error_report(all_results, error_summary[1]))
    /\ calls' = Append(calls, "format_error_report")
    /\ pc' = "send"
    /\ UNCHANGED << LOG_GROUPS, idx, query_vars, all_results, total_errors,
                    error_summary, result, mail_vars, escaped, error_log, history_vars >>

\* send_email_with_attachment up to the answer of send_raw_email and, when
\* that raises, the except clause up to the call of send_simple_email
SendWithAttachment ==
    /\ pc = "send"
    /\ \E raised \in BOOLEAN :
          LET step == IF raised THEN send_email_with_attachment_except(log_content[1])
                      ELSE send_email_with_attachment_sent
          IN  /\ primary_outcome' = IF raised THEN "raised" ELSE "sent"
              /\ error_log' = IF step.log = "" THEN error_log ELSE Append(error_log, step.log)
              /\ calls' = calls \o << "send_email_with_attachment", "send_raw_email" >>
                                \o (IF step.op = "fallback" THEN << "send_simple_email" >> ELSE <<>>)
              /\ fallback_content' = IF step.op = "fallback" THEN Some(step.content) ELSE fallback_content
              /\ IF step.op = "raise"
                 THEN Escape
                 ELSE /\ pc' = IF step.op = "fallback" THEN "fallback" ELSE "reported"
                      /\ escaped' = escaped
    /\ UNCHANGED << LOG_GROUPS, idx, query_vars, handler_vars, fallback_outcome, history_vars >>

\* send_simple_email from the send_email call on
SendSimple ==
    /\ pc = "fallback"
    /\ \E raised \in BOOLEAN :
          LET step == IF raised THEN send_simple_email_except ELSE send_simple_email_sent
          IN  /\ fallback_outcome' = IF raised THEN "raised" ELSE "sent"
              /\ error_log' = IF step.log = "" THEN error_log ELSE Append(error_log, step.log)
              /\ calls' = Append(calls, "send_email")
              /\ IF step.op = "raise"
                 THEN Escape
                 ELSE /\ pc' = "reported"
                      /\ escaped' = escaped
    /\ UNCHANGED << LOG_GROUPS, idx, query_vars, handler_vars, fallback_content,
                    primary_outcome, history_vars >>

\* send_email_with_attachment has returned: return
ReturnReported ==
    /\ pc = "reported"
    /\ result' = Some(reported_result(total_errors))
    /\ pc' = "done"
    /\ UNCHANGED << LOG_GROUPS, idx, query_vars, all_results, total_errors,
                    error_summary, log_content, report_lines, mail_vars, escaped, error_log,
                    history_vars, calls >>

Next ==
    \/ StartQuery
    \/ Poll
    \/ ProcessResults
    \/ NoErrors
    \/ GenerateSummary
    \/ FormatReport
    \/ SendWithAttachment
    \/ SendSimple
    \/ ReturnReported

Spec == Init /\ [][Next]_vars

\* ------------------------------------------------------------------------
\* Properties
\* ------------------------------------------------------------------------
Count(seq, x) == Cardinality({ i \in 1..Len(seq) : seq[i] = x })

\* the calls of the three stages after the loop, in the order they were made
StageCalls ==
    SelectSeq(calls, LAMBDA c : c \in { "generate_error_summary", "format_error_report",
                                        "send_email_with_attachment" })

StageOrder == << "generate_error_summary", "format_error_report", "send_email_with_attachment" >>

Returned == pc = "done" /\ ~escaped

\* steps the invocation has left at most: 6 after the loop, and per entry of
\* LOG_GROUPS one start_query, 30 polls and the rest of the loop body
Rank ==
    LET later == 6 + (Len(LOG_GROUPS) - idx) * 33
    IN  CASE pc = "query" -> later + 33
          [] pc = "poll" -> later + 1 + (31 - polls)
          [] pc = "returned" -> later + 1
          [] pc = "format" -> 4
          [] pc = "send" -> 3
          [] pc = "fallback" -> 2
          [] pc = "reported" -> 1
          [] pc = "done" -> 0

\* a step is possible; format_error_report, which no condition guards, gets
\* arguments it is defined on: the divisor of the percentages is not zero
CanStep ==
    IF pc = "format"
    THEN error_summary # None /\ error_summary[1].total_errors > 0
    ELSE ENABLED (StartQuery \/ Poll \/ ProcessResults \/ NoErrors \/ GenerateSummary
                  \/ SendWithAttachment \/ SendSimple \/ ReturnReported)

\* C1: whatever the log-group list is and whatever the query and mail
\* services answer or raise, the invocation ends (until it has ended a step
\* is possible, and every step lowers the bound Rank on the steps left), and
\* it ends by returning a result with statusCode 200: no exception leaves
\* lambda_handler.
C1_AlwaysReturns200 ==
    /\ [](pc = "done" => (~escaped /\ result # None /\ result[1].statusCode = 200))
    /\ [](Rank >= 0 /\ (pc # "done" => CanStep))
    /\ [][Rank' < Rank]_vars

\* C1 witness: the handler returned after a query raised and both sends raised.
C1_Witness ==
    /\ Returned
    /\ result[1].statusCode = 200
    /\ fallback_outcome = "raised"
    /\ Count(error_log, "[ERROR] Query error") >= 1

\* C2: start_query is called once per entry of LOG_GROUPS, in the list's
\* order, the next one only after the previous query_logs returned; however
\* an earlier query ended, every later entry is still queried.
C2_EveryEntryQueriedInOrder ==
    /\ Len(submitted) <= Len(LOG_GROUPS)
    /\ submitted = SubSeq(LOG_GROUPS, 1, Len(submitted))
    /\ pc \in { "poll", "returned" } => Len(submitted) = idx
    /\ pc = "query" => Len(submitted) = idx - 1
    /\ pc \notin { "query", "poll", "returned" } => submitted = LOG_GROUPS

\* C2 witness: two entries, the first query failed and the second was made
\* and returned records.
C2_Witness ==
    /\ Returned
    /\ Len(LOG_GROUPS) = 2
    /\ LOG_GROUPS[1] # LOG_GROUPS[2]
    /\ submitted = LOG_GROUPS
    /\ Len(error_log) >= 1
    /\ error_log[1] \in { "[ERROR] Query failed", "[ERROR] Query cancelled",
                          "[ERROR] Query timeout after 60s", "[ERROR] Query error" }
    /\ yielded = { LOG_GROUPS[2] }

\* C3: when the loop is over and no query returned a record, none of
\* generate_error_summary, format_error_report, send_email_with_attachment,
\* send_simple_email is called, no mail-service call is made, and the result
\* is the "No errors found" one.
C3_NoRecordsNoReport ==
    (idx > Len(LOG_GROUPS) /\ yielded = {}) =>
        /\ calls = <<>>
        /\ primary_outcome = "" /\ fallback_outcome = ""
        /\ error_summary = None /\ log_content = None /\ fallback_content = None
        /\ pc \in { "query", "done" }
        /\ Returned => result[1] = [statusCode |-> 200,
                                 body |-> "No errors found in Generic Error Monitor"]

\* C3 witness: two entries queried, both queries failed, the handler returned.
C3_Witness ==
    /\ Returned
    /\ Len(LOG_GROUPS) = 2
    /\ yielded = {}
    /\ Len(error_log) = 2
    /\ result[1].body = "No errors found in Generic Error Monitor"

\* C4: when some query returned a record, generate_error_summary, then
\* format_error_report, then send_email_with_attachment are called, once
\* each and in that order, none of them before every entry has been queried,
\* and the result says "Found and reported N errors" with N the number of
\* records all queries returned.
C4_ReportStagesInOrder ==
    /\ StageCalls = SubSeq(StageOrder, 1, Min(Len(StageCalls), 3))
    /\ Len(StageCalls) <= 3
    /\ calls # <<>> => (submitted = LOG_GROUPS /\ idx > Len(LOG_GROUPS) /\ yielded # {})
    /\ (Returned /\ yielded # {}) =>
          /\ StageCalls = StageOrder
          /\ result[1] = [statusCode |-> 200,
                       body |-> "Found and reported " \o ToString(yield_total)
                                \o " errors in Generic Error Monitor"]

\* C4 witness: two entries both returned records and the handler returned
\* after the three stages.
C4_Witness ==
    /\ Returned
    /\ Cardinality(yielded) = 2
    /\ yield_total >= 3
    /\ StageCalls = StageOrder

\* C5 as stated: when the primary send raises, send_simple_email is called
\* with exactly 2000 characters, the first 2000 of the report, and nothing is
\* propagated; the fallback is entered only when the primary send raised.
C5_FallbackExactly2000 ==
    /\ primary_outcome = "raised" =>
          /\ fallback_content # None
          /\ Len(fallback_content[1]) = 2000
          /\ fallback_content[1] = SubSeq(log_content[1], 1, 2000)
          /\ ~escaped
    /\ ("send_simple_email" \in Range(calls) \/ fallback_content # None)
          => primary_outcome = "raised"

\* C5 amended: when the primary send raises, send_simple_email is called
\* with the first min(2000, length) characters of the report (the whole
\* report when it is shorter than 2000 characters, exactly 2000 characters
\* otherwise), and nothing is propagated; the fallback is entered only when
\* the primary send raised.
C5_FallbackAtMost2000 ==
    /\ primary_outcome = "raised" =>
          /\ fallback_content # None
          /\ Len(fallback_content[1]) = Min(Len(log_content[1]), 2000)
          /\ fallback_content[1] = SubSeq(log_content[1], 1, Len(fallback_content[1]))
          /\ Len(log_content[1]) >= 2000 => Len(fallback_content[1]) = 2000
          /\ "send_simple_email" \in Range(calls)
          /\ ~escaped
    /\ ("send_simple_email" \in Range(calls) \/ fallback_content # None)
          => primary_outcome = "raised"
    /\ primary_outcome = "sent" => (fallback_outcome = "" /\ pc \in { "reported", "done" })

\* C5 witness: the primary send raised on a report longer than 2000
\* characters and the fallback got 2000 of them.
C5_Witness ==
    /\ primary_outcome = "raised"
    /\ Len(log_content[1]) > 2000
    /\ Len(fallback_content[1]) = 2000

\* C6: send_raw_email is called at most once and send_email at most once;
\* when send_email raises, it was the last mail-service call, the failure is
\* logged, no exception leaves the notifier and the handler returns the
\* "Found and reported" result.
C6_NoRaiseNoRetry ==
    /\ Count(calls, "send_raw_email") <= 1
    /\ Count(calls, "send_email") <= 1
    /\ Count(calls, "send_simple_email") <= 1
    /\ primary_outcome # "" => ~escaped
    /\ fallback_outcome = "raised" =>
          /\ calls[Len(calls)] = "send_email"
          /\ error_log[Len(error_log)] = "[ERROR] Fallback email failed"
          /\ pc \in { "reported", "done" }
          /\ pc = "done" =>
                result[1] = [statusCode |-> 200,
                          body |-> "Found and reported " \o ToString(yield_total)
                                   \o " errors in Generic Error Monitor"]

\* C6 witness: both sends raised and the handler returned.
C6_Witness ==
    /\ Returned
    /\ primary_outcome = "raised"
    /\ fallback_outcome = "raised"
    /\ result[1].statusCode = 200

\* the last poll answered with a status the loop goes on after
NonTerminalPoll ==
    /\ polls > 0
    /\ ~poll_response.raised
    /\ poll_response.status \notin { "Complete", "Failed", "Cancelled" }

C8_PollCeiling ==
    /\ [](/\ polls <= 30
          /\ elapsed <= 60
          /\ pc = "poll" => (elapsed = 2 * polls /\ elapsed < 60)
          /\ (pc = "returned" /\ NonTerminalPoll) =>
                (polls = 30 /\ elapsed = 60 /\ query_result = Some(<<>>)
                 /\ query_log = "[ERROR] Query timeout after 60s")
          /\ query_log = "[ERROR] Query timeout after 60s" => polls = 30)
    /\ [][pc = "poll" => (polls' = polls + 1 /\ (pc' = "poll" => elapsed' = elapsed + 2))]_vars

\* C8 witness: a query returned on timeout after 30 polls.
C8_Witness ==
    /\ pc = "returned"
    /\ NonTerminalPoll
    /\ polls = 30
    /\ query_log = "[ERROR] Query timeout after 60s"

RECURSIVE SumOfLengths(_)
SumOfLengths(d) == IF d = <<>> THEN 0 ELSE Len(d[1].value) + SumOfLengths(Tail(d))

RECURSIVE SumOfValues(_)
SumOfValues(d) == IF d = <<>> THEN 0 ELSE d[1].value + SumOfValues(Tail(d))

\* C9: total_errors of the handler, and total_errors of the summary, equal
\* the sum over the keys of all_results of the length of the key's record
\* list, which is the sum of the log_group_breakdown counts, for every
\* log-group list, one that names a group twice included.
C9_TotalIsSumOfGroupLengths ==
    /\ total_errors = SumOfLengths(all_results)
    /\ error_summary # None =>
          /\ error_summary[1].total_errors = SumOfLengths(all_results)
          /\ error_summary[1].total_errors = SumOfValues(error_summary[1].log_group_breakdown)

\* C10: all_results never holds a key with an empty record list: its keys
\* are the log groups for which a query returned a record, a query that
\* returns no record leaves it as it is, and affected_log_groups of the
\* summary is the number of those log groups.
C10_NoEmptyEntries ==
    /\ [](/\ \A i \in 1..Len(all_results) : all_results[i].value # <<>>
          /\ Keys(all_results) = yielded
          /\ Len(all_results) = Cardinality(yielded)
          /\ error_summary # None =>
                /\ error_summary[1].affected_log_groups = Cardinality(yielded)
                /\ \A i \in 1..Len(error_summary[1].log_group_breakdown) :
                      error_summary[1].log_group_breakdown[i].value > 0)
    /\ [][(pc = "returned" /\ query_result = Some(<<>>)) => all_results' = all_results]_vars

\* C10 witness: of two distinct log groups the first returned 3 records and
\* the second none; the mapping has one key, the total is 3 and the summary
\* counts one affected log group.
C10_Witness ==
    /\ Len(LOG_GROUPS) = 2
    /\ LOG_GROUPS[1] # LOG_GROUPS[2]
    /\ error_summary # None
    /\ Keys(all_results) = { LOG_GROUPS[1] }
    /\ Len(all_results) = 1
    /\ Len(all_results[1].value) = 3
    /\ total_errors = 3
    /\ error_summary[1].affected_log_groups = 1

\* ------------------------------------------------------------------------
\* format_error_report on its own: the invocation from the end of the loop
\* on, for mappings whose groups hold up to 60 records
\* ------------------------------------------------------------------------
FormatKeys == << "/aws/lambda/app", "/ecs/api", "/aws/rds/db", "/ecs/worker" >>

\* record lists of 1, 50, 51 and 60 records
FormatSizes == { 1, DETAIL_CAP, DETAIL_CAP + 1, DETAIL_CAP + 10 }

\* the k-th record of a query: every field of it names k
NumberedRecord(k) ==
    << [field |-> "@timestamp", value |-> "2026-11-01 05:12:44." \o ToString(100 + k)],
       [field |-> "@message", value |-> "[ERROR] request " \o ToString(k) \o " failed"],
       [field |-> "@logStream", value |-> "stream/" \o ToString(k)] >>

\* the records numbered upwards or downwards
FormatResults ==
    { [i \in 1..n |-> NumberedRecord(IF up THEN i ELSE n + 1 - i)] :
        n \in FormatSizes, up \in BOOLEAN }

FormatMappings ==
    UNION { { [i \in 1..k |-> [key |-> FormatKeys[i], value |-> f[i]]] :
                f \in [1..k -> FormatResults] } : k \in 1..MaxFormatGroups }

\* the state at the end of the loop over the log groups of the mapping m
LoopDone(m) ==
    /\ LOG_GROUPS = [i \in 1..Len(m) |-> m[i].key]
    /\ all_results = m
    /\ total_errors = SumOfLengths(m)
    /\ yield_total = SumOfLengths(m)
    /\ yielded = Keys(m)
    /\ submitted = LOG_GROUPS
    /\ idx = Len(LOG_GROUPS) + 1
    /\ pc = "query"
    /\ elapsed = 0
    /\ polls = 0
    /\ poll_response = NoResponse
    /\ query_result = None
    /\ query_log = ""
    /\ error_summary = None
    /\ log_content = None
    /\ report_lines = None
    /\ fallback_content = None
    /\ primary_outcome = ""
    /\ fallback_outcome = ""
    /\ result = None
    /\ escaped = FALSE
    /\ error_log = <<>>
    /\ calls = <<>>

FormatInit == \E m \in FormatMappings : LoopDone(m)

FormatNext ==
    \/ GenerateSummary
    \/ FormatReport

FormatSpec == FormatInit /\ [][FormatNext]_vars

StartsWith(s, prefix) == Len(s) >= Len(prefix) /\ SubSeq(s, 1, Len(prefix)) = prefix

\* the index in the lines L of the header of the log group name
HeaderIndex(L, name) == CHOOSE i \in 1..Len(L) : L[i] = "LOG GROUP: " \o name \o "\n"

\* the lines of L from the header of the log group name up to the opening
\* rule of the next log group or, for the last log group, the 5-line footer
SectionOf(L, name) ==
    LET from == HeaderIndex(L, name)
        stops == { j \in (from + 1)..Len(L) : StartsWith(L[j], "\n#") } \cup { Len(L) - 4 }
        to == CHOOSE j \in stops : \A k \in stops : j <= k
    IN  SubSeq(L, from, to - 1)

IsEntryLine(line) == StartsWith(line, "ERROR #")
IsEntryOrFieldLine(line) ==
    \/ StartsWith(line, "ERROR #")
    \/ StartsWith(line, "Timestamp:   ")
    \/ StartsWith(line, "Log Stream:  ")
    \/ StartsWith(line, "Message:     ")
IsNoticeLine(line) == StartsWith(line, "... and ")

\* what the detail section shows of a record as entry number k
ExpectedEntry(record, k) ==
    << "ERROR #" \o ToString(k) \o "\n",
       "Timestamp:   " \o FieldValue(record, "@timestamp", Some("N/A"))[1] \o "\n",
       "Log Stream:  " \o FieldValue(record, "@logStream", Some("N/A"))[1] \o "\n",
       "Message:     " \o FieldValue(record, "@message", Some("N/A"))[1] \o "\n" >>

\* the section of log group number g has exactly min(n, 50) entries, numbered
\* from 1 and showing the first records in their order, and the notice of
\* the n - 50 remaining ones exactly when n > 50, as its last line
SectionCapped(L, g) ==
    LET results == all_results[g].value
        n == Len(results)
        m == IF n < 50 THEN n ELSE 50
        section == SectionOf(L, all_results[g].key)
        shown == SelectSeq(section, IsEntryOrFieldLine)
        notices == SelectSeq(section, IsNoticeLine)
    IN  /\ Len(SelectSeq(section, IsEntryLine)) = m
        /\ Len(shown) = 4 * m
        /\ \A k \in 1..m : SubSeq(shown, 4 * k - 3, 4 * k) = ExpectedEntry(results[k], k)
        /\ IF n > 50
           THEN /\ notices = << "... and " \o ToString(n - 50)
                                \o " more errors (truncated for readability)\n\n" >>
                /\ section[Len(section)] = notices[1]
           ELSE notices = <<>>

\* C11: in the report, the detail section of every log group with n records
\* has exactly min(n, 50) entries, numbered 1..min(n, 50) and showing the
\* first records in their given order; the line "... and n - 50 more errors"
\* is there exactly once when n > 50 and not at all when n <= 50.
C11_DetailCappedAt50 ==
    report_lines # None =>
        \A g \in 1..Len(all_results) : SectionCapped(report_lines[1], g)

\* C11 witness: a log group of 60 records was formatted: entries 1 to 50,
\* then "... and 10 more errors".
C11_Witness ==
    /\ report_lines # None
    /\ Len(all_results[1].value) = 60
    /\ "ERROR #50\n" \in Range(SectionOf(report_lines[1], all_results[1].key))
    /\ "ERROR #51\n" \notin Range(report_lines[1])
    /\ "... and 10 more errors (truncated for readability)\n\n"
          \in Range(SectionOf(report_lines[1], all_results[1].key))

\* ------------------------------------------------------------------------
\* generate_error_summary on its own, for mappings whose records may lack
\* a timestamp and come in no order of time
\* ------------------------------------------------------------------------
LaterTime == "2026-11-01 05:12:44.310"
EarlierTime == "2026-11-01 04:58:02.007"

RecordLater ==
    << [field |-> "@timestamp", value |-> LaterTime],
       [field |-> "@message", value |-> "[ERROR] upstream timed out"] >>
RecordEarlier ==
    << [field |-> "@timestamp", value |-> EarlierTime],
       [field |-> "@message", value |-> "[ERROR] connection reset"] >>
\* a record whose @timestamp is the empty string
RecordBlank ==
    << [field |-> "@timestamp", value |-> ""],
       [field |-> "@message", value |-> "[ERROR] malformed event"] >>
\* a record without the field @timestamp
RecordUnstamped ==
    << [field |-> "@message", value |-> "[ERROR] no time recorded"] >>

SummaryRecords == { RecordLater, RecordEarlier, RecordBlank, RecordUnstamped }

SummaryKey(k) == "/ecs/service-" \o ToString(k)

\* the records `flat` as a mapping: a new log group begins after every
\* position of `cuts`
Grouped(flat, cuts) ==
    LET starts == { 1 } \cup { j + 1 : j \in cuts }
        groups == Cardinality(starts)
        Start(k) == CHOOSE b \in starts : Cardinality({ t \in starts : t < b }) = k - 1
    IN  [k \in 1..groups |->
            [key |-> SummaryKey(k),
             value |-> SubSeq(flat, Start(k),
                              IF k = groups THEN Len(flat) ELSE Start(k + 1) - 1)]]

SummaryMappings ==
    UNION { { Grouped(flat, cuts) : flat \in [1..n -> SummaryRecords],
                                    cuts \in SUBSET (1..(n - 1)) } :
            n \in 1..MaxSummaryRecords }

SummaryInit == \E m \in SummaryMappings : LoopDone(m)

SummaryNext == GenerateSummary

SummarySpec == SummaryInit /\ [][SummaryNext]_vars

\* the records of a mapping in the order of iteration
RECURSIVE Encountered(_)
Encountered(d) == IF d = <<>> THEN <<>> ELSE d[1].value \o Encountered(Tail(d))

\* the timestamp field of every record encountered, None where it has none
Stamps == [i \in 1..Len(Encountered(all_results)) |->
              FieldValue(Encountered(all_results)[i], "@timestamp", None)]

HasTime(stamp) == stamp # None /\ stamp # << "" >>

\* C12 as stated: first_error_time is the timestamp field of the first record
\* encountered and last_error_time that of the last record encountered, for
\* every mapping, records without a timestamp or with an empty one included.
C12_TimesOfFirstAndLastRecord ==
    error_summary # None =>
        /\ error_summary[1].first_error_time = Stamps[1]
        /\ error_summary[1].last_error_time = Stamps[Len(Stamps)]

\* C12 amended: first_error_time is the timestamp of the first record
\* encountered that has a non-empty timestamp and last_error_time that of
\* the last such record, in the order of iteration and not of time; both are
\* None when no record has a non-empty timestamp.
C12_TimesOfFirstAndLastStamped ==
    error_summary # None =>
        LET stamped == SelectSeq(Stamps, HasTime)
        IN  /\ error_summary[1].first_error_time =
                  (IF stamped = <<>> THEN None ELSE stamped[1])
            /\ error_summary[1].last_error_time =
                  (IF stamped = <<>> THEN None ELSE stamped[Len(stamped)])

\* C12 witness: the summary of a mapping whose first record has no timestamp
\* and whose stamped records come later-time first: first_error_time is the
\* later time, last_error_time the earlier one.
C12_Witness ==
    /\ error_summary # None
    /\ ~HasTime(Stamps[1])
    /\ error_summary[1].first_error_time = << LaterTime >>
    /\ error_summary[1].last_error_time = << EarlierTime >>

====
